---- MODULE Spec2Model ----
(***************************************************************************)
(* Bus booking system: the "buses" collection of the document store, the   *)
(* repository operations of models/bus.py (BusModel) and the concurrent    *)
(* booking requests that run BusModel.book_seats as three store-visible    *)
(* steps: find_one, the pre-check loop over the snapshot, update_one.      *)
(***************************************************************************)
EXTENDS Integers, Sequences, FiniteSets, TLC

\* ------------------------------------------------------------------ bounds
\* number of trips ever inserted (ObjectIds are never reused)
MaxBuses == 1
\* largest total_seats a create request carries in the model (schema: 1..100)
MaxTotalSeats == 5
\* longest seat_numbers list of a booking request
MaxSeatNumbers == 2

\* ------------------------------------------------------- program constants
\* seats per generated row: rows = total_seats // 4, for col in range(1, 5)
SeatsPerRow == 4
\* "price": 500.0 of a generated seat
UnitPrice == 500
\* BusBase.total_seats: Field(..., gt=0, le=100)
MaxSchemaSeats == 100
\* datetime.timedelta(days=1), in the hours the model counts time in
HoursPerDay == 24

\* SeatStatus
AVAILABLE == "available"
BOOKED == "booked"
RESERVED == "reserved"
SeatStatus == {AVAILABLE, BOOKED, RESERVED}

\* Python None (a stored null, or a key that .get() does not find)
NULL == "<null>"
\* find_one found no document
NoBus == [missing |-> TRUE]

\* ------------------------------------------------------------------ inputs
\* the two booking requests that may run concurrently
Requests == {"r1", "r2"}
\* passenger_data: {"name": ..., "email": ...}
Passengers == {[name |-> "Ann", email |-> "ann@x.org"],
               [name |-> "Bob", email |-> "bob@x.org"]}
\* seat numbers a request may name; "Z9" is on no trip of the model
SeatNames == {"A1", "A2", "Z9"}
\* bus_name as created, and as an update may set it
BusNames == {"Express", "Shuttle"}

\* city names are strings, written as tuples of their characters so that the
\* regular expression of search_buses can look at each character
NY == <<"N", "Y">>
NJ == <<"N", "J">>
LA == <<"L", "A">>
\* BusBase.source, destination, departure_time of a stored trip;
\* departure_time in hours since 2025-01-01T00:00
Routes ==
    {[source |-> s, destination |-> LA, departure_time |-> t] :
        s \in {NY, <<"n", "y">>, NJ}, t \in {0, HoursPerDay - 1, HoursPerDay}}
\* the route of the trips created while bookings run
CreatedRoutes == {[source |-> NY, destination |-> LA, departure_time |-> 0]}

RECURSIVE SeqsUpTo(_, _)
SeqsUpTo(S, n) ==
    IF n = 0 THEN {<<>>}
    ELSE LET shorter == SeqsUpTo(S, n - 1)
         IN  shorter \cup {Append(q, x) : q \in {s \in shorter : Len(s) = n - 1}, x \in S}

SeatNumberLists == SeqsUpTo(SeatNames, MaxSeatNumbers)

Range(q) == {q[i] : i \in DOMAIN q}

\* ------------------------------------------------------- seat layout
\* chr(64 + row)
RowLetters == <<"A", "B", "C", "D", "E", "F", "G", "H", "I", "J", "K", "L", "M",
                "N", "O", "P", "Q", "R", "S", "T", "U", "V", "W", "X", "Y", "Z">>
\* seat_types = ["window", "aisle", "aisle", "window"]
seat_types == <<"window", "aisle", "aisle", "window">>

\* a seat number that ignores the row: every row is lettered "A"
SeatNumberOfFirstRow(row, col) == RowLetters[1] \o ToString(col)

\* f"{chr(64 + row)}{col}"
SeatNumberOf(row, col) == RowLetters[row] \o ToString(col)

\* one generated seat dict
GeneratedSeat(row, col) ==
    [seat_number |-> SeatNumberOf(row, col),
     seat_type |-> seat_types[col],
     price |-> UnitPrice,
     status |-> AVAILABLE,
     passenger_name |-> NULL,
     passenger_email |-> NULL]

\* BusModel._generate_seats: rows = total_seats // 4, four seats per row
GenerateSeats(total_seats) ==
    LET rows == total_seats \div SeatsPerRow
    IN  [i \in 1..(rows * SeatsPerRow) |->
            GeneratedSeat(((i - 1) \div SeatsPerRow) + 1, ((i - 1) % SeatsPerRow) + 1)]

\* a caller-supplied SeatCreate after bus.dict(): seat_number, seat_type, price,
\* status; it has no passenger keys, which readers see as None
SeatCreate(seat_number, seat_type, status) ==
    [seat_number |-> seat_number,
     seat_type |-> seat_type,
     price |-> UnitPrice,
     status |-> status,
     passenger_name |-> NULL,
     passenger_email |-> NULL]

\* BusCreate.seats: [] (the default), or a list the caller supplies
SuppliedSeatLists ==
    {<<>>,
     <<SeatCreate("A1", "window", BOOKED), SeatCreate("A2", "aisle", AVAILABLE)>>,
     <<SeatCreate("A1", "window", RESERVED), SeatCreate("A2", "aisle", AVAILABLE)>>}

\* BusBase.total_seats: gt=0, le=100; the model takes the smallest count, one
\* full row, and the largest count of the model (bounded by MaxTotalSeats)
TotalSeatsInputs == {1, SeatsPerRow, MaxTotalSeats}

\* ------------------------------------------------------------------- state
VARIABLES
    buses,      \* the "buses" collection: stored _id -> document
    nextId,     \* the next _id insert_one hands out
    pc,         \* where each booking request stands
    req,        \* its arguments: bus_id, seat_numbers, passenger_data
    snap,       \* the document its find_one returned (local variable bus)
    result,     \* what book_seats returned: (success, message)
    response,   \* what book_tickets answered
    storage,    \* the store as the process sees it: connected, unconnected, failing
    ret         \* the last answered call other than a booking, and its outcome

vars == <<buses, nextId, pc, req, snap, result, response, storage, ret>>

\* database.connect() succeeded at startup and the server answers
CONNECTED == "connected"
\* database.connect() failed at startup: is_connected is False, get_collection
\* returns None
UNCONNECTED == "unconnected"
\* connected at startup, but every pymongo call now raises
FAILING == "failing"

NoRequest == [bus_id |-> 0, seat_numbers |-> <<>>, passenger |-> [name |-> NULL, email |-> NULL]]
NoResult == [ok |-> FALSE, msg |-> NULL]
NoResponse == [kind |-> NULL, detail |-> NULL, total_amount |-> 0]
\* no call answered yet; otherwise op is the operation, the next six fields
\* its arguments (those it has), status its outcome, found the _ids of the
\* trips a search returned, seats the seat list _generate_seats returned
NoCall == [op |-> NULL, bus_id |-> 0, bus_name |-> NULL, source |-> <<>>,
           destination |-> <<>>, travel_date |-> NULL, total_seats |-> 0,
           status |-> NULL, found |-> {}, seats |-> <<>>]

\* ids a request may carry: well-formed ObjectIds, stored or not
BusIds == 1..MaxBuses

\* ------------------------------------------------- BusModel.create_bus
\* the document insert_one stores
NewBusDocument(bus_name, route, total_seats, seats) ==
    [bus_name |-> bus_name,
     source |-> route.source,
     destination |-> route.destination,
     departure_time |-> route.departure_time,
     total_seats |-> total_seats,
     seats |-> IF seats = <<>> THEN GenerateSeats(total_seats) ELSE seats,
     available_seats |-> total_seats,
     booked_seats |-> 0]

CreateBus(bus_name, route, total_seats, seats) ==
    /\ storage = CONNECTED
    /\ nextId <= MaxBuses
    /\ buses' = buses @@ (nextId :> NewBusDocument(bus_name, route, total_seats, seats))
    /\ nextId' = nextId + 1
    /\ UNCHANGED <<pc, req, snap, result, response, storage, ret>>

\* ------------------------------------------------- BusModel.book_seats
\* next((s for s in bus["seats"] if s["seat_number"] == seat_number), None):
\* the index of the first match, 0 for None
FindSeat(seats, seat_number) ==
    LET hits == {i \in DOMAIN seats : seats[i].seat_number = seat_number}
    IN  IF hits = {} THEN 0 ELSE CHOOSE i \in hits : \A j \in hits : i <= j

SeatNotFound(seat_number) == "Seat " \o seat_number \o " not found"
SeatNotAvailable(seat_number) == "Seat " \o seat_number \o " is not available"

\* the pre-check loop without its status test: a seat only has to exist
RECURSIVE PreCheckFoundOnly(_, _, _)
PreCheckFoundOnly(bus, seat_numbers, i) ==
    IF i > Len(seat_numbers) THEN NULL
    ELSE IF FindSeat(bus.seats, seat_numbers[i]) = 0
         THEN SeatNotFound(seat_numbers[i])
         ELSE PreCheckFoundOnly(bus, seat_numbers, i + 1)

\* the pre-check loop from position i on: the message of the first failing
\* seat number, NULL when the loop runs to its end
RECURSIVE PreCheck(_, _, _)
PreCheck(bus, seat_numbers, i) ==
    IF i > Len(seat_numbers) THEN NULL
    ELSE LET seat == FindSeat(bus.seats, seat_numbers[i])
         IN  IF seat = 0 THEN SeatNotFound(seat_numbers[i])
             ELSE IF bus.seats[seat].status # AVAILABLE
                  THEN SeatNotAvailable(seat_numbers[i])
                  ELSE PreCheck(bus, seat_numbers, i + 1)

\* the positional filter that matches the first requested seat number only
ArrayFilterFirst(elem, seat_numbers) ==
    seat_numbers # <<>> /\ elem.seat_number = seat_numbers[1]

\* the update without array_filters: every element of seats matches
ArrayFilterAll(elem, seat_numbers) == TRUE

\* array_filters=[{"elem.seat_number": {"$in": seat_numbers}}]
ArrayFilter(elem, seat_numbers) == elem.seat_number \in Range(seat_numbers)

\* "$set" on one matching array element
SetSeat(elem, passenger_data) ==
    [elem EXCEPT !.status = BOOKED,
                 !.passenger_name = passenger_data.name,
                 !.passenger_email = passenger_data.email]

\* "available_seats": bus["available_seats"] - len(seat_numbers)
NewAvailableSeats(bus, seat_numbers) == bus.available_seats - Len(seat_numbers)
\* booked_seats raised by the number of different seat numbers
NewBookedSeatsDistinct(bus, seat_numbers) ==
    bus.booked_seats + Cardinality(Range(seat_numbers))

\* "booked_seats": bus["booked_seats"] + len(seat_numbers)
NewBookedSeats(bus, seat_numbers) == bus.booked_seats + Len(seat_numbers)

\* the document update_one leaves, from the stored document doc and the
\* snapshot bus the counters are computed from
BookUpdate(doc, bus, seat_numbers, passenger_data) ==
    [doc EXCEPT
        !.seats = [i \in DOMAIN doc.seats |->
                      IF ArrayFilter(doc.seats[i], seat_numbers)
                      THEN SetSeat(doc.seats[i], passenger_data)
                      ELSE doc.seats[i]],
        !.available_seats = NewAvailableSeats(bus, seat_numbers),
        !.booked_seats = NewBookedSeats(bus, seat_numbers)]

\* update_result.modified_count: 1 when the document matched and changed
ModifiedCount(old, new) == IF old # new THEN 1 ELSE 0

\* raise HTTPException(400, detail=message) in book_tickets
BadRequest(message) == [kind |-> "error400", detail |-> message, total_amount |-> 0]

\* bus = self.collection.find_one({"_id": ObjectId(bus_id)}); if not bus: ...
BookSeatsFind(r, bus_id, seat_numbers, passenger_data) ==
    /\ pc[r] = "idle"
    /\ storage = CONNECTED
    /\ req' = [req EXCEPT ![r] = [bus_id |-> bus_id, seat_numbers |-> seat_numbers,
                                  passenger |-> passenger_data]]
    /\ IF bus_id \in DOMAIN buses
       THEN /\ snap' = [snap EXCEPT ![r] = buses[bus_id]]
            /\ pc' = [pc EXCEPT ![r] = "found"]
            /\ UNCHANGED <<result, response>>
       ELSE /\ result' = [result EXCEPT ![r] = [ok |-> FALSE, msg |-> "Bus not found"]]
            /\ response' = [response EXCEPT ![r] = BadRequest("Bus not found")]
            /\ pc' = [pc EXCEPT ![r] = "done"]
            /\ UNCHANGED snap
    /\ UNCHANGED <<buses, nextId, storage, ret>>

\* for seat_number in seat_numbers: ... return False, f"Seat ..."
BookSeatsCheck(r) ==
    /\ pc[r] = "found"
    /\ LET message == PreCheck(snap[r], req[r].seat_numbers, 1)
       IN  IF message = NULL
           THEN /\ pc' = [pc EXCEPT ![r] = "checked"]
                /\ UNCHANGED <<snap, result, response>>
           ELSE /\ result' = [result EXCEPT ![r] = [ok |-> FALSE, msg |-> message]]
                /\ response' = [response EXCEPT ![r] = BadRequest(message)]
                /\ snap' = [snap EXCEPT ![r] = NoBus]
                /\ pc' = [pc EXCEPT ![r] = "done"]
    /\ UNCHANGED <<buses, nextId, req, storage, ret>>

\* update_result = self.collection.update_one(...);
\* return update_result.modified_count > 0, "Booking successful"
BookSeatsUpdate(r) ==
    /\ pc[r] = "checked"
    /\ storage = CONNECTED
    /\ LET id == req[r].bus_id
           new == BookUpdate(buses[id], snap[r], req[r].seat_numbers, req[r].passenger)
           modified_count == IF id \in DOMAIN buses THEN ModifiedCount(buses[id], new) ELSE 0
       IN  /\ buses' = IF id \in DOMAIN buses THEN [buses EXCEPT ![id] = new] ELSE buses
           /\ result' = [result EXCEPT ![r] = [ok |-> modified_count > 0,
                                               msg |-> "Booking successful"]]
           /\ IF modified_count > 0
              THEN /\ pc' = [pc EXCEPT ![r] = "booked"]
                   /\ UNCHANGED response
              ELSE /\ pc' = [pc EXCEPT ![r] = "done"]
                   /\ response' = [response EXCEPT ![r] = BadRequest("Booking successful")]
    /\ snap' = [snap EXCEPT ![r] = NoBus]
    /\ UNCHANGED <<nextId, req, storage, ret>>

\* ------------------------------------------- BusService.book_tickets
\* sum(seat["price"] for seat in bus["seats"] if seat["seat_number"] in seat_numbers)
RECURSIVE TotalAmount(_, _, _)
TotalAmount(seats, seat_numbers, i) ==
    IF i > Len(seats) THEN 0
    ELSE (IF seats[i].seat_number \in Range(seat_numbers) THEN seats[i].price ELSE 0)
         + TotalAmount(seats, seat_numbers, i + 1)

\* bus = get_bus_by_id(bus_id); total_amount = ...; return BookingResponse(...)
\* (bus is None when the trip is gone: bus["seats"] raises TypeError)
BookTicketsRespond(r) ==
    /\ pc[r] = "booked"
    /\ storage = CONNECTED
    /\ LET id == req[r].bus_id
       IN  response' = [response EXCEPT ![r] =
               IF id \in DOMAIN buses
               THEN [kind |-> "confirmed", detail |-> NULL,
                     total_amount |-> TotalAmount(buses[id].seats, req[r].seat_numbers, 1)]
               ELSE [kind |-> "error500", detail |-> "TypeError", total_amount |-> 0]]
    /\ pc' = [pc EXCEPT ![r] = "done"]
    /\ UNCHANGED <<buses, nextId, req, snap, result, storage, ret>>

\* ------------------------------------------------- BusModel.update_bus
\* BusUpdate carries descriptive fields only; bus_name stands for them.
\* update_data = {k: v for k, v in update_data.items() if v is not None}
\* an update that writes the counters of a new trip along with the field
UpdateSetAndReset(doc, bus_name) ==
    [doc EXCEPT !.bus_name = bus_name,
                !.available_seats = doc.total_seats,
                !.booked_seats = 0]

\* update_one(..., {"$set": update_data}) on the matching document
UpdateSet(doc, bus_name) == [doc EXCEPT !.bus_name = bus_name]

UpdateBus(bus_id, bus_name) ==
    /\ storage = CONNECTED
    /\ bus_name # NULL
    /\ bus_id \in DOMAIN buses
    /\ buses' = [buses EXCEPT ![bus_id] = UpdateSet(buses[bus_id], bus_name)]
    /\ UNCHANGED <<nextId, pc, req, snap, result, response, storage, ret>>

\* ------------------------------------------------- BusModel.delete_bus
\* a delete that reports one deleted document whatever the filter matched
DeletedCountAlways(coll, bus_id) == 1

\* result.deleted_count of delete_one({"_id": ObjectId(bus_id)})
DeletedCount(coll, bus_id) == IF bus_id \in DOMAIN coll THEN 1 ELSE 0

\* the collection delete_one leaves
DeleteOne(coll, bus_id) == [i \in DOMAIN coll \ {bus_id} |-> coll[i]]

DeleteBus(bus_id) ==
    /\ storage = CONNECTED
    /\ bus_id \in DOMAIN buses
    /\ buses' = DeleteOne(buses, bus_id)
    /\ UNCHANGED <<nextId, pc, req, snap, result, response, storage, ret>>

\* ------------------------------------------------------------ specification
Init ==
    /\ buses = <<>>
    /\ nextId = 1
    /\ pc = [r \in Requests |-> "idle"]
    /\ req = [r \in Requests |-> NoRequest]
    /\ snap = [r \in Requests |-> NoBus]
    /\ result = [r \in Requests |-> NoResult]
    /\ response = [r \in Requests |-> NoResponse]
    /\ storage = CONNECTED
    /\ ret = NoCall

Next ==
    \/ \E n \in BusNames, route \in CreatedRoutes, t \in TotalSeatsInputs,
          s \in SuppliedSeatLists : CreateBus(n, route, t, s)
    \/ \E r \in Requests, b \in BusIds, q \in SeatNumberLists, p \in Passengers :
          BookSeatsFind(r, b, q, p)
    \/ \E r \in Requests : BookSeatsCheck(r)
    \/ \E r \in Requests : BookSeatsUpdate(r)
    \/ \E r \in Requests : BookTicketsRespond(r)
    \/ \E b \in BusIds, n \in BusNames : UpdateBus(b, n)
    \/ \E b \in BusIds : DeleteBus(b)

Spec == Init /\ [][Next]_vars

\* ------------------------------------------ BusModel.search_buses
\* str.lower() of one character, for the "i" option of $regex
LowerLetters == <<"a", "b", "c", "d", "e", "f", "g", "h", "i", "j", "k", "l", "m",
                  "n", "o", "p", "q", "r", "s", "t", "u", "v", "w", "x", "y", "z">>
ToLower(c) ==
    IF \E k \in DOMAIN RowLetters : RowLetters[k] = c
    THEN LowerLetters[CHOOSE k \in DOMAIN RowLetters : RowLetters[k] = c]
    ELSE c

\* {"$regex": f"^{pattern}$", "$options": "i"} against text, for patterns made
\* of letters and the metacharacter ".": the pattern is not escaped, so "."
\* stands for any character; a letter matches itself in either case
RegexMatch(pattern, text) ==
    /\ Len(pattern) = Len(text)
    /\ \A k \in DOMAIN pattern :
          pattern[k] = "." \/ ToLower(pattern[k]) = ToLower(text[k])

\* strptime raised ValueError
ValueError == -1
\* datetime.datetime.strptime(travel_date, "%Y-%m-%d"), in hours since
\* 2025-01-01T00:00, for the travel_date strings of the model
StrpTime(travel_date) ==
    CASE travel_date = "2025-01-01" -> 0
      [] travel_date = "2025-01-02" -> HoursPerDay
      [] OTHER -> ValueError

\* the _ids of list(self.collection.find(query)); [] when strptime raises
Find(coll, source, destination, travel_date) ==
    LET travel_datetime == StrpTime(travel_date)
        next_day == travel_datetime + HoursPerDay
    IN  IF travel_datetime = ValueError THEN {}
        ELSE {i \in DOMAIN coll :
                 /\ RegexMatch(source, coll[i].source)
                 /\ RegexMatch(destination, coll[i].destination)
                 /\ coll[i].departure_time >= travel_datetime
                 /\ coll[i].departure_time < next_day}

\* ------------------------------------------------ the answered calls
\* an ObjectId string that ObjectId() rejects (InvalidId)
MalformedId == 0
\* ids a get, update or delete may carry: malformed, stored or once stored,
\* and one that was never handed out
AdminIds == {MalformedId} \cup (1..(MaxBuses + 1))
\* BusUpdate.bus_name: a name, or None / not set
UpdateNames == BusNames \cup {NULL}
\* SearchBuses.source, destination and travel_date of the model's searches
SearchSources == {NY, <<"n", "y">>, <<"N", ".">>, <<"N">>}
SearchDestinations == {LA, <<"l", "a">>}
TravelDates == {"2025-01-01", "2025-01-02", "01/01/2025"}

\* _check_connection: HTTPException(503) when the collection is None
ServiceUnavailable == "error503"

Answer(op, bus_id, bus_name, status) ==
    [NoCall EXCEPT !.op = op, !.bus_id = bus_id, !.bus_name = bus_name, !.status = status]

\* BusService.get_bus: 404 when get_bus_by_id returns None, which it does for
\* an unknown id, for a malformed id and for any exception of find_one
GetBus(bus_id) ==
    /\ LET present == storage = CONNECTED /\ bus_id \in DOMAIN buses
       IN  ret' = IF storage = UNCONNECTED
                  THEN Answer("get_bus", bus_id, NULL, ServiceUnavailable)
                  ELSE IF present
                  THEN [Answer("get_bus", bus_id, NULL, "ok")
                           EXCEPT !.found = {bus_id}, !.seats = buses[bus_id].seats]
                  ELSE Answer("get_bus", bus_id, NULL, "error404")
    /\ UNCHANGED <<buses, nextId, pc, req, snap, result, response, storage>>

\* BusService.update_bus: 400 when BusModel.update_bus returns False, which it
\* does without a non-None field, when nothing was modified and on any exception
UpdateBusRequest(bus_id, bus_name) ==
    /\ LET matched == storage = CONNECTED /\ bus_name # NULL /\ bus_id \in DOMAIN buses
           new == IF matched THEN [buses EXCEPT ![bus_id] = UpdateSet(buses[bus_id], bus_name)]
                  ELSE buses
           modified_count == IF new # buses THEN 1 ELSE 0
       IN  /\ buses' = new
           /\ ret' = Answer("update_bus", bus_id, bus_name,
                            IF storage = UNCONNECTED THEN ServiceUnavailable
                            ELSE IF modified_count > 0 THEN "ok" ELSE "error400")
    /\ UNCHANGED <<nextId, pc, req, snap, result, response, storage>>

\* BusService.delete_bus: 404 when BusModel.delete_bus returns False, which it
\* does when nothing was deleted and on any exception
DeleteBusRequest(bus_id) ==
    /\ LET deleted_count == IF storage = CONNECTED THEN DeletedCount(buses, bus_id) ELSE 0
       IN  /\ buses' = IF storage = CONNECTED THEN DeleteOne(buses, bus_id) ELSE buses
           /\ ret' = Answer("delete_bus", bus_id, NULL,
                            IF storage = UNCONNECTED THEN ServiceUnavailable
                            ELSE IF deleted_count > 0 THEN "ok" ELSE "error404")
    /\ UNCHANGED <<nextId, pc, req, snap, result, response, storage>>

\* BusService.search_buses: the list BusModel.search_buses returns, which is
\* [] on any exception (strptime, find)
SearchBuses(source, destination, travel_date) ==
    /\ ret' = [NoCall EXCEPT
                 !.op = "search_buses",
                 !.source = source,
                 !.destination = destination,
                 !.travel_date = travel_date,
                 !.status = IF storage = UNCONNECTED THEN ServiceUnavailable ELSE "ok",
                 !.found = IF storage = CONNECTED
                           THEN Find(buses, source, destination, travel_date)
                           ELSE {}]
    /\ UNCHANGED <<buses, nextId, pc, req, snap, result, response, storage>>

\* ------------------------------------- book_tickets without the store
\* book_seats: _check_connection raises 503 before the try block
BookSeatsUnavailable(r, bus_id, seat_numbers, passenger_data) ==
    /\ pc[r] = "idle"
    /\ storage = UNCONNECTED
    /\ req' = [req EXCEPT ![r] = [bus_id |-> bus_id, seat_numbers |-> seat_numbers,
                                  passenger |-> passenger_data]]
    /\ response' = [response EXCEPT ![r] =
           [kind |-> ServiceUnavailable, detail |-> "Database connection not available",
            total_amount |-> 0]]
    /\ pc' = [pc EXCEPT ![r] = "done"]
    /\ UNCHANGED <<buses, nextId, snap, result, storage, ret>>

\* find_one raises: except Exception as e: return False, f"Booking error: ..."
BookSeatsFindError(r, bus_id, seat_numbers, passenger_data) ==
    /\ pc[r] = "idle"
    /\ storage = FAILING
    /\ req' = [req EXCEPT ![r] = [bus_id |-> bus_id, seat_numbers |-> seat_numbers,
                                  passenger |-> passenger_data]]
    /\ result' = [result EXCEPT ![r] = [ok |-> FALSE, msg |-> "Booking error"]]
    /\ response' = [response EXCEPT ![r] = BadRequest("Booking error")]
    /\ pc' = [pc EXCEPT ![r] = "done"]
    /\ UNCHANGED <<buses, nextId, snap, storage, ret>>

\* update_one raises: the same except clause
BookSeatsUpdateError(r) ==
    /\ pc[r] = "checked"
    /\ storage = FAILING
    /\ result' = [result EXCEPT ![r] = [ok |-> FALSE, msg |-> "Booking error"]]
    /\ response' = [response EXCEPT ![r] = BadRequest("Booking error")]
    /\ snap' = [snap EXCEPT ![r] = NoBus]
    /\ pc' = [pc EXCEPT ![r] = "done"]
    /\ UNCHANGED <<buses, nextId, req, storage, ret>>

\* the re-read of book_tickets gets None from get_bus_by_id: TypeError
BookTicketsRespondError(r) ==
    /\ pc[r] = "booked"
    /\ storage = FAILING
    /\ response' = [response EXCEPT ![r] =
           [kind |-> "error500", detail |-> "TypeError", total_amount |-> 0]]
    /\ pc' = [pc EXCEPT ![r] = "done"]
    /\ UNCHANGED <<buses, nextId, req, snap, result, storage, ret>>

\* ------------------------------------------------- the store comes and goes
\* the server stops answering: every pymongo call raises from now on
StorageFails ==
    /\ storage = CONNECTED
    /\ storage' = FAILING
    /\ UNCHANGED <<buses, nextId, pc, req, snap, result, response, ret>>

StorageRecovers ==
    /\ storage = FAILING
    /\ storage' = CONNECTED
    /\ UNCHANGED <<buses, nextId, pc, req, snap, result, response, ret>>

\* database.connect() at startup succeeded, or failed
InitStore ==
    /\ buses = <<>>
    /\ nextId = 1
    /\ pc = [r \in Requests |-> "idle"]
    /\ req = [r \in Requests |-> NoRequest]
    /\ snap = [r \in Requests |-> NoBus]
    /\ result = [r \in Requests |-> NoResult]
    /\ response = [r \in Requests |-> NoResponse]
    /\ storage \in {CONNECTED, UNCONNECTED}
    /\ ret = NoCall

\* the one booking request, and the inputs, of the runs with answered calls
StoreRequests == {"r1"}
StoreSeatNumberLists == {<<"A1">>, <<"A1", "A2">>}
StoreSearches == {<<NY, LA, "2025-01-01">>, <<NJ, LA, "2025-01-01">>}

NextStore ==
    \/ \E n \in BusNames, route \in CreatedRoutes : CreateBus(n, route, SeatsPerRow, <<>>)
    \/ \E r \in StoreRequests, b \in BusIds, q \in StoreSeatNumberLists, p \in Passengers :
          \/ BookSeatsFind(r, b, q, p)
          \/ BookSeatsUnavailable(r, b, q, p)
          \/ BookSeatsFindError(r, b, q, p)
    \/ \E r \in StoreRequests :
          \/ BookSeatsCheck(r)
          \/ BookSeatsUpdate(r)
          \/ BookSeatsUpdateError(r)
          \/ BookTicketsRespond(r)
          \/ BookTicketsRespondError(r)
    \/ \E b \in AdminIds : GetBus(b)
    \/ \E b \in AdminIds, n \in UpdateNames : UpdateBusRequest(b, n)
    \/ \E b \in AdminIds : DeleteBusRequest(b)
    \/ \E q \in StoreSearches : SearchBuses(q[1], q[2], q[3])
    \/ StorageFails
    \/ StorageRecovers

SpecStore == InitStore /\ [][NextStore]_vars

\* ------------------------------------- one client booking again and again
\* the client has its answer; its next book_tickets request starts afresh
BookTicketsReturn(r) ==
    /\ pc[r] = "done"
    /\ pc' = [pc EXCEPT ![r] = "idle"]
    /\ req' = [req EXCEPT ![r] = NoRequest]
    /\ result' = [result EXCEPT ![r] = NoResult]
    /\ response' = [response EXCEPT ![r] = NoResponse]
    /\ UNCHANGED <<buses, nextId, snap, storage, ret>>

\* seat_numbers lists that name one seat twice, and plain ones
RepeatSeatNumberLists ==
    {<<"A1">>, <<"A2">>, <<"A1", "A1">>, <<"A2", "A2">>, <<"A3", "A3">>, <<"A4", "A4">>}

\* a trip of one generated row, and a sequence of booking requests on it
NextRepeat ==
    \/ \E n \in BusNames, route \in CreatedRoutes : CreateBus(n, route, SeatsPerRow, <<>>)
    \/ \E r \in StoreRequests, b \in BusIds, q \in RepeatSeatNumberLists, p \in Passengers :
          BookSeatsFind(r, b, q, p)
    \/ \E r \in StoreRequests :
          \/ BookSeatsCheck(r)
          \/ BookSeatsUpdate(r)
          \/ BookTicketsRespond(r)
          \/ BookTicketsReturn(r)

SpecRepeat == Init /\ [][NextRepeat]_vars

\* ------------------------------------- BusModel.search_buses on its own
\* most trips a searched collection holds
MaxSearchTrips == 2

\* a collection of up to MaxSearchTrips trips on the routes of the model
InitSearch ==
    /\ \E routes \in SeqsUpTo(Routes, MaxSearchTrips) :
          /\ buses = [i \in DOMAIN routes |->
                         NewBusDocument("Express", routes[i], SeatsPerRow, <<>>)]
          /\ nextId = Len(routes) + 1
    /\ pc = [r \in Requests |-> "idle"]
    /\ req = [r \in Requests |-> NoRequest]
    /\ snap = [r \in Requests |-> NoBus]
    /\ result = [r \in Requests |-> NoResult]
    /\ response = [r \in Requests |-> NoResponse]
    /\ storage = CONNECTED
    /\ ret = NoCall

NextSearch ==
    \E source \in SearchSources, destination \in SearchDestinations,
       travel_date \in TravelDates : SearchBuses(source, destination, travel_date)

SpecSearch == InitSearch /\ [][NextSearch]_vars

\* ------------------------------------- BusModel._generate_seats on its own
\* one call of _generate_seats(total_seats), its return value kept in ret
GenerateSeatsCall(total_seats) ==
    /\ ret' = [NoCall EXCEPT !.op = "_generate_seats",
                             !.total_seats = total_seats,
                             !.status = "ok",
                             !.seats = GenerateSeats(total_seats)]
    /\ UNCHANGED <<buses, nextId, pc, req, snap, result, response, storage>>

\* every total_seats the schema admits
NextGen == \E total_seats \in 1..MaxSchemaSeats : GenerateSeatsCall(total_seats)

SpecGen == Init /\ [][NextGen]_vars

\* ------------------------------------------------------- reading the state
\* book_seats has returned to book_tickets
BookSeatsReturned(r) == pc[r] \in {"booked", "done"}
\* the step r takes is its find_one, its pre-check, its update_one
FindStep(r) == pc[r] = "idle" /\ pc'[r] # "idle"
CheckStep(r) == pc[r] = "found" /\ pc'[r] # "found"
UpdateStep(r) == pc[r] = "checked" /\ pc'[r] # "checked"

SeatSet(r) == Range(req[r].seat_numbers)
\* the seats of a document that carry one of these seat numbers
SeatsNamed(doc, names) == {i \in DOMAIN doc.seats : doc.seats[i].seat_number \in names}
Counters(doc) == <<doc.available_seats, doc.booked_seats>>
BookedTo(seat, passenger_data) ==
    /\ seat.status = BOOKED
    /\ seat.passenger_name = passenger_data.name
    /\ seat.passenger_email = passenger_data.email

\* r found the stored trip b, and every seat number it names is a seat of b
\* that was left available by create_bus (booked since by a request, if at all)
RequestsOpenSeats(r, b) ==
    /\ BookSeatsReturned(r)
    /\ req[r].bus_id = b
    /\ result[r].msg # "Bus not found"
    /\ \A n \in SeatSet(r) : \E i \in DOMAIN buses[b].seats :
          /\ buses[b].seats[i].seat_number = n
          /\ buses[b].seats[i].status = AVAILABLE \/ buses[b].seats[i].passenger_name # NULL

\* ------------------------------------------------------------------ claims

\* C1: two booking requests on the same trip whose seat-number sets overlap end,
\* in every interleaving of their steps, with exactly one success and one failure.
C1_ExactlyOneOfOverlapping ==
    \A r1, r2 \in Requests, b \in DOMAIN buses :
        (/\ r1 # r2
         /\ RequestsOpenSeats(r1, b)
         /\ RequestsOpenSeats(r2, b)
         /\ SeatSet(r1) \cap SeatSet(r2) # {})
        => (result[r1].ok # result[r2].ok)

\* C2: a seat only ever moves from available to booked, and once it is booked
\* no step changes its status or its passenger name/email again.
C2_BookedSeatsNeverChange ==
    [][\A b \in DOMAIN buses \cap DOMAIN buses' : \A i \in DOMAIN buses[b].seats :
          LET old == buses[b].seats[i]
              new == buses'[b].seats[i]
          IN  /\ old.status # new.status => old.status = AVAILABLE /\ new.status = BOOKED
              /\ old.status = BOOKED => new = old]_vars

\* C3: every stored trip has available_seats + booked_seats = total_seats.
C3_CountersSumToTotal ==
    \A b \in DOMAIN buses :
        buses[b].available_seats + buses[b].booked_seats = buses[b].total_seats

\* C3 witness: both requests booked seats of one trip, each with a write that
\* followed the other's read.
C3_Witness ==
    \E b \in DOMAIN buses :
        /\ \A r \in Requests : pc[r] = "done" /\ result[r].ok /\ req[r].bus_id = b
        /\ buses[b].booked_seats < Cardinality(SeatsNamed(buses[b], SeatNames))
        /\ \A i \in SeatsNamed(buses[b], SeatNames) : buses[b].seats[i].status = BOOKED

\* C4: a book_seats call books every seat it names and writes the counters in
\* one store step, or changes nothing of the trip: a step either leaves a
\* trip's seats and counters alone, or it is the update of one request, after
\* which all seats that request names are booked to its passenger, all other
\* seats are as before, both counters carry the values the call computed, and
\* the call reports success; a call that reports failure changed nothing.
C4_AllOrNothing ==
    [][/\ \A b \in DOMAIN buses \cap DOMAIN buses' :
             (buses'[b].seats # buses[b].seats \/ Counters(buses'[b]) # Counters(buses[b]))
             => \E r \in Requests :
                  /\ UpdateStep(r) /\ req[r].bus_id = b /\ result'[r].ok
                  /\ \A i \in DOMAIN buses[b].seats :
                        IF buses[b].seats[i].seat_number \in SeatSet(r)
                        THEN BookedTo(buses'[b].seats[i], req[r].passenger)
                        ELSE buses'[b].seats[i] = buses[b].seats[i]
                  /\ buses'[b].available_seats = snap[r].available_seats - Len(req[r].seat_numbers)
                  /\ buses'[b].booked_seats = snap[r].booked_seats + Len(req[r].seat_numbers)
       /\ \A r \in Requests :
             (pc'[r] # pc[r] /\ pc'[r] = "done" /\ ~result'[r].ok) => buses' = buses]_vars

\* C4 witness: a request for two different seats has succeeded and both seats
\* are booked to its passenger.
C4_Witness ==
    \E r \in Requests, b \in DOMAIN buses :
        /\ BookSeatsReturned(r) /\ result[r].ok /\ req[r].bus_id = b
        /\ Cardinality(SeatSet(r)) = 2
        /\ \A i \in SeatsNamed(buses[b], SeatSet(r)) : BookedTo(buses[b].seats[i], req[r].passenger)
        /\ Cardinality(SeatsNamed(buses[b], SeatSet(r))) = 2

\* the seats a step turns from available to booked on trip b
NewlyBooked(b) ==
    {i \in DOMAIN buses[b].seats :
        buses[b].seats[i].status = AVAILABLE /\ buses'[b].seats[i].status = BOOKED}

\* C5: a book_seats call for k >= 1 seat numbers that are all available, with no
\* other write between its read and its update, succeeds, books exactly those
\* seats to its passenger, lowers available_seats and raises booked_seats by k,
\* k being the number of seats booked, and changes nothing else.
C5_BooksExactlyRequested ==
    [][\A r \in Requests :
          (/\ UpdateStep(r)
           /\ req[r].bus_id \in DOMAIN buses
           /\ buses[req[r].bus_id] = snap[r]
           /\ req[r].seat_numbers # <<>>)
          => LET b == req[r].bus_id
                 k == Cardinality(NewlyBooked(b))
             IN  /\ result'[r].ok
                 /\ \A i \in DOMAIN buses[b].seats :
                       IF buses[b].seats[i].seat_number \in SeatSet(r)
                       THEN BookedTo(buses'[b].seats[i], req[r].passenger)
                       ELSE buses'[b].seats[i] = buses[b].seats[i]
                 /\ buses'[b].available_seats = buses[b].available_seats - k
                 /\ buses'[b].booked_seats = buses[b].booked_seats + k
                 /\ \A o \in DOMAIN buses \ {b} : o \in DOMAIN buses' /\ buses'[o] = buses[o]]_vars

\* the snapshot's seat with this number is booked / is missing
BookedInSnapshot(r, n) ==
    \E i \in DOMAIN snap[r].seats :
        snap[r].seats[i].seat_number = n /\ snap[r].seats[i].status = BOOKED
MissingInSnapshot(r, n) ==
    \A i \in DOMAIN snap[r].seats : snap[r].seats[i].seat_number # n
UnavailableInSnapshot(r, n) ==
    \E i \in DOMAIN snap[r].seats :
        snap[r].seats[i].seat_number = n /\ snap[r].seats[i].status # AVAILABLE

\* C6 as claimed: a call whose request includes a seat that is already booked
\* fails with "Seat <n> is not available" and changes nothing.
C6_BookedSeatIsUnavailable ==
    [][\A r \in Requests :
          (CheckStep(r) /\ \E n \in SeatSet(r) : BookedInSnapshot(r, n))
          => /\ \E n \in SeatSet(r) : result'[r] = [ok |-> FALSE, msg |-> SeatNotAvailable(n)]
             /\ buses' = buses]_vars

\* C6 as amended: a call whose request includes a seat that is already booked
\* fails and changes nothing; it fails with "Seat <n> is not available", n the
\* first requested seat that is not available, unless a seat number that is not
\* on the trip comes before it in the request, and then with "Seat <n> not
\* found" for that seat number.
C6_BookedSeatFails ==
    [][\A r \in Requests :
          (CheckStep(r) /\ \E n \in SeatSet(r) : BookedInSnapshot(r, n))
          => LET q == req[r].seat_numbers
                 bad == {j \in DOMAIN q : MissingInSnapshot(r, q[j]) \/ UnavailableInSnapshot(r, q[j])}
                 first == CHOOSE j \in bad : \A l \in bad : j <= l
             IN  /\ pc'[r] = "done"
                 /\ result'[r] = [ok |-> FALSE,
                                  msg |-> IF MissingInSnapshot(r, q[first])
                                          THEN SeatNotFound(q[first])
                                          ELSE SeatNotAvailable(q[first])]
                 /\ buses' = buses]_vars

\* C6 witness: a request naming a booked seat was refused as not available,
\* and the seat is still booked without the request's passenger.
C6_Witness ==
    \E r \in Requests, b \in DOMAIN buses, n \in SeatNames :
        /\ pc[r] = "done" /\ req[r].bus_id = b
        /\ result[r] = [ok |-> FALSE, msg |-> SeatNotAvailable(n)]
        /\ \E i \in DOMAIN buses[b].seats :
              /\ buses[b].seats[i].seat_number = n
              /\ buses[b].seats[i].status = BOOKED
              /\ buses[b].seats[i].passenger_name # req[r].passenger.name

\* C7: a call whose request includes a seat number that is not on the trip
\* fails with "Seat <n> not found" and changes nothing.
C7_MissingSeatIsNotFound ==
    [][\A r \in Requests :
          (CheckStep(r) /\ \E n \in SeatSet(r) : MissingInSnapshot(r, n))
          => /\ \E n \in SeatSet(r) :
                   MissingInSnapshot(r, n) /\ result'[r] = [ok |-> FALSE, msg |-> SeatNotFound(n)]
             /\ buses' = buses]_vars

\* both requests are served by trip b: they found it, they name disjoint sets
\* of seats that create_bus left available
DisjointOpenRequests(r1, r2, b) ==
    /\ r1 # r2
    /\ RequestsOpenSeats(r1, b)
    /\ RequestsOpenSeats(r2, b)
    /\ SeatSet(r1) \cap SeatSet(r2) = {}

BothSucceed(r1, r2, b) ==
    /\ result[r1].ok /\ result[r2].ok
    /\ \A i \in SeatsNamed(buses[b], SeatSet(r1)) : BookedTo(buses[b].seats[i], req[r1].passenger)
    /\ \A i \in SeatsNamed(buses[b], SeatSet(r2)) : BookedTo(buses[b].seats[i], req[r2].passenger)

\* C8 as claimed: two booking requests on the same trip for disjoint sets of
\* available seats both succeed in every interleaving, and both sets end up
\* booked to their passengers.
C8_DisjointBothSucceed ==
    \A r1, r2 \in Requests, b \in DOMAIN buses :
        DisjointOpenRequests(r1, r2, b) => BothSucceed(r1, r2, b)

\* C8 as amended: the same, for two requests that each name at least one seat.
C8_NonEmptyDisjointBothSucceed ==
    \A r1, r2 \in Requests, b \in DOMAIN buses :
        (/\ DisjointOpenRequests(r1, r2, b)
         /\ SeatSet(r1) # {}
         /\ SeatSet(r2) # {})
        => BothSucceed(r1, r2, b)

\* C8 witness: two requests for different seats of one trip by different
\* passengers have both returned, and the counters show that the second write
\* used a snapshot read before the first write.
C8_Witness ==
    \E r1, r2 \in Requests, b \in DOMAIN buses :
        /\ DisjointOpenRequests(r1, r2, b)
        /\ SeatSet(r1) # {} /\ SeatSet(r2) # {}
        /\ req[r1].passenger # req[r2].passenger
        /\ buses[b].booked_seats < Len(req[r1].seat_numbers) + Len(req[r2].seat_numbers)

\* C9: for every seat of every stored trip, passenger_name and passenger_email
\* are non-null exactly when the seat's status is booked.
C9_PassengerIffBooked ==
    \A b \in DOMAIN buses : \A i \in DOMAIN buses[b].seats :
        LET seat == buses[b].seats[i]
        IN  /\ (seat.passenger_name # NULL) <=> (seat.status = BOOKED)
            /\ (seat.passenger_email # NULL) <=> (seat.status = BOOKED)

\* C10: every stored trip has len(seats) = total_seats.
C10_SeatCountIsTotal ==
    \A b \in DOMAIN buses : Len(buses[b].seats) = buses[b].total_seats

\* the step r takes is the re-read and answer of book_tickets
RespondStep(r) == pc[r] = "booked" /\ pc'[r] = "done"

\* C11: a successful book_tickets call returns as total_amount the sum of the
\* prices of the seats the call booked (UnitPrice each), and the number of those
\* seats is the k by which the call lowered available_seats.
C11_TotalAmountOfBookedSeats ==
    [][\A r \in Requests :
          LET b == req[r].bus_id
          IN  /\ (RespondStep(r) /\ response'[r].kind = "confirmed")
                 => response'[r].total_amount
                      = UnitPrice * Cardinality(SeatsNamed(buses[b], SeatSet(r)))
              /\ (UpdateStep(r) /\ result'[r].ok)
                 => buses[b].available_seats - buses'[b].available_seats
                      = Cardinality(SeatsNamed(buses[b], SeatSet(r)))]_vars

\* C16: book_seats reports success exactly when its update changed the trip;
\* an update that changed nothing is reported as a failure whose reason is not
\* the success message, and book_tickets passes that reason on unchanged.
C16_ConflictIsReported ==
    [][\A r \in Requests :
          UpdateStep(r)
          => /\ result'[r].ok <=> (buses' # buses)
             /\ ~result'[r].ok
                => /\ result'[r].msg # "Booking successful"
                   /\ response'[r] = BadRequest(result'[r].msg)]_vars

\* C17: once book_seats has reported success, book_tickets ends by returning a
\* confirmed Booking, whatever other requests (a delete_bus of the trip
\* included) run before its re-read.
C17_SuccessIsConfirmed ==
    \A r \in Requests :
        (pc[r] = "done" /\ result[r].ok) => response[r].kind = "confirmed"

\* C18: the pre-check locates every requested seat before it looks at any
\* status: a request naming a missing seat and an unavailable seat fails with
\* "Seat <n> not found"; when every requested seat exists, the failure names
\* the first requested seat that is not available.
C18_LocateBeforeStatus ==
    [][\A r \in Requests :
          LET q == req[r].seat_numbers
              missing == {j \in DOMAIN q : MissingInSnapshot(r, q[j])}
              unavailable == {j \in DOMAIN q : UnavailableInSnapshot(r, q[j])}
          IN  (CheckStep(r) /\ unavailable # {})
              => IF missing # {}
                 THEN \E j \in missing :
                         result'[r] = [ok |-> FALSE, msg |-> SeatNotFound(q[j])]
                 ELSE LET first == CHOOSE j \in unavailable : \A l \in unavailable : j <= l
                      IN  result'[r] = [ok |-> FALSE, msg |-> SeatNotAvailable(q[first])]]_vars

\* the number of seats of a document in this status
SeatsInStatus(doc, status) ==
    Cardinality({i \in DOMAIN doc.seats : doc.seats[i].status = status})

\* the trip is as create_bus generates it for whole rows: total_seats seats,
\* none reserved, none booked without a passenger
WholeRowsTrip(doc) ==
    /\ Len(doc.seats) = doc.total_seats
    /\ \A i \in DOMAIN doc.seats :
          /\ doc.seats[i].status # RESERVED
          /\ doc.seats[i].status = BOOKED => doc.seats[i].passenger_name # NULL

\* C20: the counters are derived from the seats: available_seats is the number
\* of available seats and booked_seats the number of booked seats, after any
\* interleaving of create_bus and book_seats calls (stated for trips generated
\* with whole rows).
C20_CountersCountSeats ==
    \A b \in DOMAIN buses :
        WholeRowsTrip(buses[b])
        => /\ buses[b].available_seats = SeatsInStatus(buses[b], AVAILABLE)
           /\ buses[b].booked_seats = SeatsInStatus(buses[b], BOOKED)

\* C15: for every n in 4..100 divisible by 4, _generate_seats(n) returns exactly
\* n seats with pairwise distinct seat numbers, row letters from "A" and
\* columns 1..4 in order, seat classes window, aisle, aisle, window in each
\* row, and every seat available, priced 500, with null passenger fields.
C15_GeneratedLayout ==
    (/\ ret.op = "_generate_seats"
     /\ ret.total_seats \in 4..100
     /\ ret.total_seats % 4 = 0)
    => LET seats == ret.seats
       IN  /\ Len(seats) = ret.total_seats
           /\ \A i, j \in DOMAIN seats : i # j => seats[i].seat_number # seats[j].seat_number
           /\ \A i \in DOMAIN seats :
                 LET row == ((i - 1) \div 4) + 1
                     col == ((i - 1) % 4) + 1
                 IN  /\ seats[i].seat_number = RowLetters[row] \o ToString(col)
                     /\ seats[i].seat_type = <<"window", "aisle", "aisle", "window">>[col]
                     /\ seats[i].status = AVAILABLE
                     /\ seats[i].price = 500
                     /\ seats[i].passenger_name = NULL
                     /\ seats[i].passenger_email = NULL

\* the largest seat list of the schema was generated: 25 rows, "A1" to "Y4"
C15_Witness ==
    /\ ret.op = "_generate_seats"
    /\ ret.total_seats = MaxSchemaSeats
    /\ Len(ret.seats) = MaxSchemaSeats
    /\ ret.seats[MaxSchemaSeats].seat_number = "Y4"

\* the step answers a call of this operation
Answered(op) == ret' # ret /\ ret'.op = op

\* C12: while the store is reachable, delete_bus on an identifier that matches
\* no stored trip (never created, already deleted, malformed) answers not-found
\* and leaves the collection as it is; on a stored trip it removes the whole
\* trip and nothing else, and a deleted identifier never comes back, so a
\* second delete of it is not-found.
C12_DeleteIsNotFoundOrRemoves ==
    [][/\ (Answered("delete_bus") /\ storage = CONNECTED)
          => LET b == ret'.bus_id
             IN  IF b \in DOMAIN buses
                 THEN /\ ret'.status = "ok"
                      /\ DOMAIN buses' = DOMAIN buses \ {b}
                      /\ \A i \in DOMAIN buses' : buses'[i] = buses[i]
                 ELSE /\ ret'.status = "error404"
                      /\ buses' = buses
       /\ \A b \in 1..(nextId - 1) : b \notin DOMAIN buses => b \notin DOMAIN buses']_vars

\* a delete of an identifier that was stored and deleted before: not found
C12_Witness ==
    /\ storage = CONNECTED
    /\ ret.op = "delete_bus"
    /\ ret.status = "error404"
    /\ ret.bus_id \in 1..(nextId - 1)
    /\ ret.bus_id \notin DOMAIN buses

\* strings equal ignoring letter case
EqualIgnoringCase(a, b) ==
    /\ Len(a) = Len(b)
    /\ \A k \in DOMAIN a : ToLower(a[k]) = ToLower(b[k])

\* C13: search_buses(source, destination, date) returns exactly the stored
\* trips whose source and destination equal the arguments ignoring letter case
\* and whose departure_time t satisfies date 00:00 <= t < next day 00:00, and
\* it changes no stored state.
C13_SearchReturnsExactMatches ==
    [][(Answered("search_buses") /\ StrpTime(ret'.travel_date) # ValueError)
       => /\ buses' = buses
          /\ ret'.found =
                {i \in DOMAIN buses :
                    /\ EqualIgnoringCase(buses[i].source, ret'.source)
                    /\ EqualIgnoringCase(buses[i].destination, ret'.destination)
                    /\ buses[i].departure_time >= StrpTime(ret'.travel_date)
                    /\ buses[i].departure_time < StrpTime(ret'.travel_date) + 24}]_vars

\* C14: whenever the store is unreachable (not connected, or failing inside the
\* call), get_bus_by_id, book_seats, update_bus, delete_bus and search_buses
\* end in the service-unavailable outcome, never in not-found, an empty result
\* or another business failure.
C14_UnreachableIsServiceUnavailable ==
    [][storage # CONNECTED
       => /\ \A op \in {"get_bus", "update_bus", "delete_bus", "search_buses"} :
                Answered(op) => ret'.status = "error503"
          /\ \A r \in Requests :
                (FindStep(r) \/ UpdateStep(r) \/ RespondStep(r))
                => response'[r].kind = "error503"]_vars

\* C19: update_bus never changes a trip's seats, total_seats, available_seats
\* or booked_seats; it reports success only when the trip exists and was
\* modified, and on failure the stored state is unchanged.
C19_UpdateKeepsSeatsAndCounters ==
    [][Answered("update_bus")
       => /\ DOMAIN buses' = DOMAIN buses
          /\ \A i \in DOMAIN buses :
                /\ buses'[i].seats = buses[i].seats
                /\ buses'[i].total_seats = buses[i].total_seats
                /\ Counters(buses'[i]) = Counters(buses[i])
          /\ ret'.status = "ok"
             => /\ ret'.bus_id \in DOMAIN buses
                /\ buses'[ret'.bus_id] # buses[ret'.bus_id]
          /\ ret'.status # "ok" => buses' = buses]_vars

\* a successful update of a trip that has a booked seat
C19_Witness ==
    /\ ret.op = "update_bus"
    /\ ret.status = "ok"
    /\ ret.bus_id \in DOMAIN buses
    /\ buses[ret.bus_id].bus_name = ret.bus_name
    /\ buses[ret.bus_id].booked_seats > 0
    /\ \E i \in DOMAIN buses[ret.bus_id].seats : buses[ret.bus_id].seats[i].status = BOOKED

\* C21: in every reachable state every stored trip has
\* 0 <= available_seats <= total_seats and 0 <= booked_seats <= total_seats,
\* for any sequence of book_seats requests, requests that name the same seat
\* more than once included.
C21_CountersWithinTotal ==
    \A b \in DOMAIN buses :
        /\ 0 <= buses[b].available_seats
        /\ buses[b].available_seats <= buses[b].total_seats
        /\ 0 <= buses[b].booked_seats
        /\ buses[b].booked_seats <= buses[b].total_seats

====
